---- MODULE Spec2Model ----
(***************************************************************************)
(* Model of the lokahi-innovation frontend: the AIAnalysis narrative       *)
(* parser (section split, line classification, icon lookup) and the two    *)
(* fetching components AnalysisDisplay and ComparisonDisplay.              *)
(*                                                                         *)
(* A JavaScript string is a sequence of one-character strings.             *)
(***************************************************************************)
EXTENDS Integers, Sequences, FiniteSets, TLC

VARIABLES
    analysis,   \* AIAnalysis prop `analysis`
    sections,   \* AIAnalysis const `sections`
    outline,    \* the AnalysisSection elements AIAnalysis returns
    pc,         \* position of the AIAnalysis render
    line,       \* the line handed to the content.map callback
    item,       \* the element the content.map callback returns
    page,       \* the page that is open: "analyze", "compare" or "none"
    selected,   \* AnalyzePage selectedMsa / ComparePage selectedMsas
    data,       \* AnalysisDisplay analysis / ComparisonDisplay comparison
    loading,    \* the display component's loading state
    error,      \* the display component's error state
    inflight,   \* the requests of the mounted display that have not settled
    crashed     \* a render of the display component threw

parserVars == <<analysis, sections, outline, pc, line, item>>

displayVars == <<page, selected, data, loading, error, inflight, crashed>>

vars == <<parserVars, displayVars>>

-----------------------------------------------------------------------------
(* Bounds *)

MaxTokens == 4      \* tokens in a generated narrative
MaxLineLen == 4     \* characters in a generated body line
MaxInFlight == 2    \* requests of one display component awaiting a response

-----------------------------------------------------------------------------
(* Characters and the JavaScript string primitives the code calls *)

NL == "\n"

Digits == {"0", "1", "2", "3", "4", "5", "6", "7", "8", "9"}

\* \s of a regular expression, and the characters String.prototype.trim removes
WhiteSpace == {" ", NL}

IsDigit(c) == c \in Digits

IsSpace(c) == c \in WhiteSpace

RECURSIVE DigitRun(_, _)
\* number of consecutive digits of s starting at index i (1-based)
DigitRun(s, i) ==
    IF i <= Len(s) /\ IsDigit(s[i]) THEN 1 + DigitRun(s, i + 1) ELSE 0

\* /\d+\.\s/ tried at index i: the length of the match, 0 when it fails
MatchDelimiter(s, i) ==
    LET d == DigitRun(s, i) IN
    IF /\ d > 0
       /\ i + d + 1 <= Len(s)
       /\ s[i + d] = "."
       /\ IsSpace(s[i + d + 1])
    THEN d + 2
    ELSE 0

\* /^\d+\.\s/ tested against a line
MatchesNumbered(s) == MatchDelimiter(s, 1) > 0

RECURSIVE SplitRegexFrom(_, _, _)
\* String.prototype.split(/\d+\.\s/) on a non-empty string: p is where the
\* current fragment starts, q the index the pattern is tried at
SplitRegexFrom(s, p, q) ==
    IF q > Len(s) THEN <<SubSeq(s, p, Len(s))>>
    ELSE LET m == MatchDelimiter(s, q) IN
         IF m = 0 THEN SplitRegexFrom(s, p, q + 1)
         ELSE <<SubSeq(s, p, q - 1)>> \o SplitRegexFrom(s, q + m, q + m)

SplitRegex(s) == IF s = <<>> THEN << <<>> >> ELSE SplitRegexFrom(s, 1, 1)

RECURSIVE SplitCharFrom(_, _, _, _)
SplitCharFrom(s, ch, p, q) ==
    IF q > Len(s) THEN <<SubSeq(s, p, Len(s))>>
    ELSE IF s[q] = ch
         THEN <<SubSeq(s, p, q - 1)>> \o SplitCharFrom(s, ch, q + 1, q + 1)
         ELSE SplitCharFrom(s, ch, p, q + 1)

\* String.prototype.split(ch) for a one-character separator
SplitChar(s, ch) == SplitCharFrom(s, ch, 1, 1)

RECURSIVE Join(_, _)
\* Array.prototype.join(ch)
Join(parts, ch) ==
    IF parts = <<>> THEN <<>>
    ELSE IF Len(parts) = 1 THEN parts[1]
    ELSE parts[1] \o <<ch>> \o Join(Tail(parts), ch)

RECURSIVE Flatten(_)
\* the concatenation of a sequence of strings
Flatten(ts) == IF ts = <<>> THEN <<>> ELSE ts[1] \o Flatten(Tail(ts))

RECURSIVE TrimStart(_)
TrimStart(s) ==
    IF s # <<>> /\ IsSpace(s[1]) THEN TrimStart(Tail(s)) ELSE s

RECURSIVE TrimEnd(_)
TrimEnd(s) ==
    IF s # <<>> /\ IsSpace(s[Len(s)]) THEN TrimEnd(SubSeq(s, 1, Len(s) - 1)) ELSE s

\* String.prototype.trim
Trim(s) == TrimEnd(TrimStart(s))

\* String.prototype.startsWith('-')
StartsWithDash(s) == s # <<>> /\ s[1] = "-"

\* Boolean(s) of a string: the empty string is the only falsy one
Truthy(s) == s # <<>>

-----------------------------------------------------------------------------
(* AIAnalysis *)

\* mutant: the .filter(Boolean) forgotten
ParseSectionsNoFilter(s) == SplitRegex(s)

\* mutant: only a number that opens the narrative is taken off
ParseSectionsLeadingOnly(s) ==
    SelectSeq(<<SubSeq(s, MatchDelimiter(s, 1) + 1, Len(s))>>, Truthy)

\* analysis.split(/\d+\.\s/).filter(Boolean)
ParseSections(s) == SelectSeq(SplitRegex(s), Truthy)

getSectionTitle(section) == Trim(SplitChar(section, ":")[1])

KeepLine(l) == Truthy(Trim(l))

\* mutant: section.split(':')[1] in place of slice(1).join(':')
SectionBodySecondPart(section) ==
    IF Len(SplitChar(section, ":")) >= 2
    THEN Trim(SplitChar(section, ":")[2])
    ELSE <<>>

\* const content = section.split(':').slice(1).join(':').trim()
SectionBody(section) == Trim(Join(Tail(SplitChar(section, ":")), ":"))

\* mutant: the filter forgotten, blank lines kept
getSectionContentNoFilter(section) == SplitChar(SectionBody(section), NL)

getSectionContent(section) ==
    SelectSeq(SplitChar(SectionBody(section), NL), KeepLine)

\* keys of the sectionIcons object literal
KeyHealthChallenges == <<"K", "e", "y", " ", "H", "e", "a", "l", "t", "h", " ", "C", "h", "a", "l", "l", "e", "n", "g", "e", "s">>

HealthcareAccessAnalysis == <<"H", "e", "a", "l", "t", "h", "c", "a", "r", "e", " ", "A", "c", "c", "e", "s", "s", " ", "A", "n", "a", "l", "y", "s", "i", "s">>

Recommendations == <<"R", "e", "c", "o", "m", "m", "e", "n", "d", "a", "t", "i", "o", "n", "s">>

PriorityAreas == <<"P", "r", "i", "o", "r", "i", "t", "y", " ", "A", "r", "e", "a", "s">>

\* the components imported from lucide-react
LucideIcons == {"Brain", "Users", "Target", "Flag"}

\* sectionIcons is an object literal, so a property read on it also finds
\* the members it inherits from Object.prototype
constructor == <<"c", "o", "n", "s", "t", "r", "u", "c", "t", "o", "r">>

toString == <<"t", "o", "S", "t", "r", "i", "n", "g">>

valueOf == <<"v", "a", "l", "u", "e", "O", "f">>

proto == <<"_", "_", "p", "r", "o", "t", "o", "_", "_">>

\* sectionIcons[title]
sectionIcons(title) ==
    CASE title = KeyHealthChallenges -> "Brain"
      [] title = HealthcareAccessAnalysis -> "Users"
      [] title = Recommendations -> "Target"
      [] title = PriorityAreas -> "Flag"
      [] title = constructor -> "Object"
      [] title = toString -> "Object.prototype.toString"
      [] title = valueOf -> "Object.prototype.valueOf"
      [] title = proto -> "Object.prototype"
      [] OTHER -> "undefined"

\* sectionIcons[title] || Brain: functions and objects are truthy
ResolveIcon(title) ==
    IF sectionIcons(title) = "undefined" THEN "Brain" ELSE sectionIcons(title)

\* <Icon .../> in AnalysisSection: React throws while rendering when Icon is
\* an object (__proto__), returns a plain object (Object called with the
\* props) or throws itself (valueOf called without a receiver).
\* Object.prototype.toString returns the text "[object Undefined]".
IconThrows(icon) ==
    icon \in {"Object", "Object.prototype", "Object.prototype.valueOf"}

\* mutant: join('') in place of join('.')
ClassifyLineJoinEmpty(l) ==
    IF MatchesNumbered(l)
    THEN LET parts == SplitChar(l, ".")
         IN  [kind |-> "numbered",
              number |-> parts[1],
              text |-> Trim(Flatten(Tail(parts)))]
    ELSE IF StartsWithDash(l)
    THEN [kind |-> "bullet", number |-> <<>>, text |-> Trim(Tail(l))]
    ELSE [kind |-> "plain", number |-> <<>>, text |-> Trim(l)]

NoItem == [kind |-> "none", number |-> <<>>, text |-> <<>>]

\* the callback of content.map
ClassifyLine(l) ==
    IF MatchesNumbered(l)
    THEN LET parts == SplitChar(l, ".")
         IN  [kind |-> "numbered",
              number |-> parts[1],
              text |-> Trim(Join(Tail(parts), "."))]
    ELSE IF StartsWithDash(l)
    THEN [kind |-> "bullet", number |-> <<>>, text |-> Trim(Tail(l))]
    ELSE [kind |-> "plain", number |-> <<>>, text |-> Trim(l)]

MapLines(content) == [k \in 1..Len(content) |-> ClassifyLine(content[k])]

\* the callback of sections.map
RenderSection(section) ==
    [title |-> getSectionTitle(section),
     icon |-> ResolveIcon(getSectionTitle(section)),
     items |-> MapLines(getSectionContent(section))]

MapSections(secs) == [i \in 1..Len(secs) |-> RenderSection(secs[i])]

-----------------------------------------------------------------------------
(* Inputs *)

DelimiterToken == <<"1", ".", " ">>

Tokens ==
    {DelimiterToken, <<"1">>, <<".">>, <<" ">>, <<NL>>, <<":">>, <<"-">>, <<"a">>}

GeneratedNarratives ==
    {Flatten(ts) : ts \in UNION {[1..k -> Tokens] : k \in 0..MaxTokens}}

LineChars == {"1", ".", " ", "-", "a"}

\* getSectionContent keeps only lines that are non-empty after trim
GeneratedLines ==
    {l \in UNION {[1..k -> LineChars] : k \in 1..MaxLineLen} : KeepLine(l)}

\* "2. Expand screening"
NumberedLine ==
    <<"2", ".", " ", "E", "x", "p", "a", "n", "d", " ", "s", "c", "r", "e",
      "e", "n", "i", "n", "g">>

\* "Expand screening"
ExpandScreening ==
    <<"E", "x", "p", "a", "n", "d", " ", "s", "c", "r", "e", "e", "n", "i",
      "n", "g">>

\* "- Improve access"
BulletLine ==
    <<"-", " ", "I", "m", "p", "r", "o", "v", "e", " ", "a", "c", "c", "e",
      "s", "s">>

\* "Overall summary"
PlainLine ==
    <<"O", "v", "e", "r", "a", "l", "l", " ", "s", "u", "m", "m", "a", "r",
      "y">>

\* "3. 3.5 years."
DecimalLine ==
    <<"3", ".", " ", "3", ".", "5", " ", "y", "e", "a", "r", "s", ".">>

SampleLines == {NumberedLine, BulletLine, PlainLine, DecimalLine}

Lines == GeneratedLines \cup SampleLines

\* "1. Key Health Challenges: Diabetes is rising.\n\n2. Recommendations: Expand screening."
SplitExample ==
    <<"1", ".", " ", "K", "e", "y", " ", "H", "e", "a", "l", "t", "h", " ",
      "C", "h", "a", "l", "l", "e", "n", "g", "e", "s", ":", " ", "D", "i",
      "a", "b", "e", "t", "e", "s", " ", "i", "s", " ", "r", "i", "s", "i",
      "n", "g", ".", "\n", "\n", "2", ".", " ", "R", "e", "c", "o", "m",
      "m", "e", "n", "d", "a", "t", "i", "o", "n", "s", ":", " ", "E", "x",
      "p", "a", "n", "d", " ", "s", "c", "r", "e", "e", "n", "i", "n", "g",
      ".">>

\* "1. Key Health Challenges: Diabetes\n- Asthma\n2. Healthcare Access Analysis: Few\n\nclinics"
ChallengesReport ==
    <<"1", ".", " ", "K", "e", "y", " ", "H", "e", "a", "l", "t", "h", " ",
      "C", "h", "a", "l", "l", "e", "n", "g", "e", "s", ":", " ", "D", "i",
      "a", "b", "e", "t", "e", "s", "\n", "-", " ", "A", "s", "t", "h",
      "m", "a", "\n", "2", ".", " ", "H", "e", "a", "l", "t", "h", "c",
      "a", "r", "e", " ", "A", "c", "c", "e", "s", "s", " ", "A", "n", "a",
      "l", "y", "s", "i", "s", ":", " ", "F", "e", "w", "\n", "\n", "c",
      "l", "i", "n", "i", "c", "s">>

\* "3. Recommendations : - Screen\n  - Fund: now\n4. Priority Areas: Rural"
PrioritiesReport ==
    <<"3", ".", " ", "R", "e", "c", "o", "m", "m", "e", "n", "d", "a", "t",
      "i", "o", "n", "s", " ", ":", " ", "-", " ", "S", "c", "r", "e", "e",
      "n", "\n", " ", " ", "-", " ", "F", "u", "n", "d", ":", " ", "n",
      "o", "w", "\n", "4", ".", " ", "P", "r", "i", "o", "r", "i", "t",
      "y", " ", "A", "r", "e", "a", "s", ":", " ", "R", "u", "r", "a", "l">>

\* "Unexpected Topic: Overall summary"
UnknownTitleReport ==
    <<"U", "n", "e", "x", "p", "e", "c", "t", "e", "d", " ", "T", "o", "p",
      "i", "c", ":", " ", "O", "v", "e", "r", "a", "l", "l", " ", "s", "u",
      "m", "m", "a", "r", "y">>

\* "1. constructor: a"
ConstructorReport ==
    <<"1", ".", " ", "c", "o", "n", "s", "t", "r", "u", "c", "t", "o", "r",
      ":", " ", "a">>

\* "toString: a"
ToStringReport ==
    <<"t", "o", "S", "t", "r", "i", "n", "g", ":", " ", "a">>

\* "valueOf"
ValueOfReport ==
    <<"v", "a", "l", "u", "e", "O", "f">>

\* "__proto__: a"
ProtoReport ==
    <<"_", "_", "p", "r", "o", "t", "o", "_", "_", ":", " ", "a">>

\* "1. Recommendations: Do step 2. first"
MidLineReport ==
    <<"1", ".", " ", "R", "e", "c", "o", "m", "m", "e", "n", "d", "a", "t",
      "i", "o", "n", "s", ":", " ", "D", "o", " ", "s", "t", "e", "p", " ",
      "2", ".", " ", "f", "i", "r", "s", "t">>

SampleNarratives ==
    {SplitExample, ChallengesReport, PrioritiesReport, UnknownTitleReport,
     ConstructorReport,
     ToStringReport, ValueOfReport, ProtoReport, MidLineReport}

Narratives == GeneratedNarratives \cup SampleNarratives

-----------------------------------------------------------------------------
(* The pages: RegionSelector, AnalysisDisplay, ComparisonDisplay *)

Null == "null"

\* the null a display component's data state starts with
NoData == [for |-> <<>>, shape |-> "null"]

\* the regions RegionSelector lists
Regions == {"Honolulu", "Hilo", "Kahului"}

\* what a response carries where the narrative is expected.  The parent
\* object is llm_analysis (analyze) or analysis (compare), the field is
\* analysis (analyze) or comparative_analysis (compare).
NarrativeShapes == {"string", "parent_absent", "field_absent", "not_a_string"}

\* the state a display component is constructed with
Unmounted ==
    /\ data = NoData
    /\ loading = TRUE
    /\ error = Null
    /\ inflight = <<>>
    /\ crashed = FALSE

NoPage == page = "none" /\ selected = <<>> /\ Unmounted

Contains(sel, msa) == \E k \in 1..Len(sel) : sel[k] = msa

Without(sel, msa) ==
    LET Other(m) == m # msa IN SelectSeq(sel, Other)

\* RegionSelector.handleSelectionChange: the value handed to onSelect
\* mutant: a selected region is not looked for, every click appends
handleSelectionChangeAppend(sel, msa, multiple) ==
    IF multiple THEN Append(sel, msa) ELSE <<msa>>

handleSelectionChange(sel, msa, multiple) ==
    IF multiple
    THEN IF Contains(sel, msa) THEN Without(sel, msa) ELSE Append(sel, msa)
    ELSE <<msa>>

\* selectedMsa.length > 0 && <AnalysisDisplay>, selectedMsas.length > 1 &&
\* <ComparisonDisplay>
Mounted(pg, sel) == IF pg = "analyze" THEN Len(sel) > 0 ELSE Len(sel) > 1

\* whether the display's effect runs in the render that follows a change of
\* the selection from old to new, the display staying mounted.
\* AnalysisDisplay depends on [msa, includeLlm]: the string msa compares by
\* value.  ComparisonDisplay depends on [baseMsa, comparisonMsas], and
\* selectedMsas.slice(1) is a new array in every render of ComparePage.
EffectRuns(pg, old, new) ==
    IF pg = "analyze" THEN old[1] # new[1] ELSE TRUE

\* the props the compare page hands to ComparisonDisplay
baseMsa(sel) == sel[1]

\* mutant: slice() in place of slice(1)
comparisonMsasAll(sel) == sel

comparisonMsas(sel) == Tail(sel)

\* the regions a fetch is made for: the region of analyzeRegion, or the
\* base region followed by the comparison regions of compareRegions
Request(pg, sel) ==
    IF pg = "analyze" THEN <<sel[1]>>
    ELSE <<baseMsa(sel)>> \o comparisonMsas(sel)

RemoveAt(q, i) == SubSeq(q, 1, i - 1) \o SubSeq(q, i + 1, Len(q))

\* the render of a display component with data and neither loading nor
\* error: AnalysisDisplay guards llm_analysis and then calls
\* llm_analysis.analysis.split; ComparisonDisplay calls
\* comparison.analysis.comparative_analysis.split unguarded.
RenderThrows(pg, d, l, e) ==
    /\ ~l
    /\ e = Null
    /\ d # NoData
    /\ IF pg = "analyze"
       THEN d.shape \in {"field_absent", "not_a_string"}
       ELSE d.shape \in {"parent_absent", "field_absent", "not_a_string"}

\* what the display component shows
View ==
    IF crashed THEN "crashed"
    ELSE IF ~Mounted(page, selected) THEN "unmounted"
    ELSE IF loading THEN "loading"
    ELSE IF error # Null THEN "error"
    ELSE IF data = NoData THEN "nothing"
    ELSE "content"

InitDisplay ==
    /\ page \in {"analyze", "compare"}
    /\ selected = <<>>
    /\ Unmounted
    /\ analysis = <<>>
    /\ sections = <<>>
    /\ outline = <<>>
    /\ pc = "page"
    /\ line = <<>>
    /\ item = NoItem

\* a click on a region button: handleSelectionChange, the page's setState,
\* and the display's mount, unmount or effect in the render that follows
Click(msa) ==
    LET new == handleSelectionChange(selected, msa, page = "compare") IN
    /\ page \in {"analyze", "compare"}
    /\ ~crashed
    /\ selected' = new
    /\ IF ~Mounted(page, new)
       THEN \* unmounted: its pending responses no longer change anything
            /\ data' = NoData
            /\ loading' = TRUE
            /\ error' = Null
            /\ inflight' = <<>>
       ELSE IF ~Mounted(page, selected)
       THEN \* mounted: useState initial values, then the effect fetches
            /\ data' = NoData
            /\ loading' = TRUE
            /\ error' = Null
            /\ inflight' = <<Request(page, new)>>
       ELSE IF EffectRuns(page, selected, new)
       THEN \* setLoading(true) and the request
            /\ Len(inflight) < MaxInFlight
            /\ loading' = TRUE
            /\ inflight' = Append(inflight, Request(page, new))
            /\ UNCHANGED <<data, error>>
       ELSE UNCHANGED <<data, loading, error, inflight>>
    /\ UNCHANGED <<page, crashed, parserVars>>

\* a request resolves: setAnalysis/setComparison(data), setError(null),
\* finally setLoading(false), and the render that follows
Resolve(i, shape) ==
    /\ ~crashed
    /\ i \in 1..Len(inflight)
    /\ data' = [for |-> inflight[i], shape |-> shape]
    /\ error' = Null
    /\ loading' = FALSE
    /\ inflight' = RemoveAt(inflight, i)
    /\ crashed' = RenderThrows(page, data', loading', error')
    /\ UNCHANGED <<page, selected, parserVars>>

\* mutant: the finally block forgotten on the failure path
RejectKeepsLoading(i) ==
    /\ ~crashed
    /\ i \in 1..Len(inflight)
    /\ error' = "Failed to load"
    /\ inflight' = RemoveAt(inflight, i)
    /\ UNCHANGED <<page, selected, data, loading, crashed, parserVars>>

\* a request rejects: setError('Failed to load ...'), finally
\* setLoading(false)
Reject(i) ==
    /\ ~crashed
    /\ i \in 1..Len(inflight)
    /\ error' = "Failed to load"
    /\ loading' = FALSE
    /\ inflight' = RemoveAt(inflight, i)
    /\ UNCHANGED <<page, selected, data, crashed, parserVars>>

NextDisplay ==
    \/ \E msa \in Regions : Click(msa)
    \/ \E i \in 1..MaxInFlight, shape \in NarrativeShapes : Resolve(i, shape)
    \/ \E i \in 1..MaxInFlight : Reject(i)

SpecDisplay == InitDisplay /\ [][NextDisplay]_vars

-----------------------------------------------------------------------------
(* AIAnalysis as a state machine: one render of the component *)

Init ==
    /\ analysis \in Narratives
    /\ sections = <<>>
    /\ outline = <<>>
    /\ pc = "start"
    /\ line = <<>>
    /\ item = NoItem
    /\ NoPage

\* const sections = analysis.split(/\d+\.\s/).filter(Boolean)
SplitSections ==
    /\ pc = "start"
    /\ sections' = ParseSections(analysis)
    /\ pc' = "split"
    /\ UNCHANGED <<analysis, outline, line, item, displayVars>>

\* the returned JSX: sections.map(...) with every AnalysisSection rendered
RenderSections ==
    /\ pc = "split"
    /\ \/ /\ \E i \in 1..Len(sections) : IconThrows(MapSections(sections)[i].icon)
          /\ pc' = "error"
          /\ outline' = <<>>
       \/ /\ \A i \in 1..Len(sections) : ~IconThrows(MapSections(sections)[i].icon)
          /\ pc' = "done"
          /\ outline' = MapSections(sections)
    /\ UNCHANGED <<analysis, sections, line, item, displayVars>>

Next == SplitSections \/ RenderSections

Spec == Init /\ [][Next]_vars

-----------------------------------------------------------------------------
(* The content.map callback applied to one body line *)

InitClassify ==
    /\ line \in Lines
    /\ item = NoItem
    /\ pc = "line"
    /\ analysis = <<>>
    /\ sections = <<>>
    /\ outline = <<>>
    /\ NoPage

Classify ==
    /\ pc = "line"
    /\ item' = ClassifyLine(line)
    /\ pc' = "classified"
    /\ UNCHANGED <<analysis, sections, outline, line, displayVars>>

NextClassify == Classify

SpecClassify == InitClassify /\ [][NextClassify]_vars

-----------------------------------------------------------------------------
(* Vocabulary of the properties, stated on positions of the string, without *)
(* the split, slice and join calls of the code                              *)

Min(a, b) == IF a < b THEN a ELSE b

\* the indices of s that lie in some occurrence of digits-period-whitespace
DelimiterCovered(s) ==
    {k \in 1..Len(s) :
        \E j \in k..Len(s) :
            /\ j >= 3
            /\ IsSpace(s[j])
            /\ s[j - 1] = "."
            /\ \E i \in 1..Min(k, j - 2) : \A m \in i..(j - 2) : IsDigit(s[m])}

\* the maximal runs of indices of s outside X, as substrings, left to right
MaximalRuns(s, X) ==
    LET starts == {k \in 1..Len(s) : k \notin X /\ (k = 1 \/ (k - 1) \in X)}
        NthStart(n) ==
            CHOOSE k \in starts : Cardinality({x \in starts : x < k}) = n - 1
        EndOf(k) ==
            CHOOSE m \in k..Len(s) :
                /\ \A n \in k..m : n \notin X
                /\ m = Len(s) \/ (m + 1) \in X
    IN  [n \in 1..Cardinality(starts) |->
            SubSeq(s, NthStart(n), EndOf(NthStart(n)))]

\* the non-empty pieces of s between occurrences of digits-period-whitespace
Fragments(s) == MaximalRuns(s, DelimiterCovered(s))

HasDelimiter(s) == DelimiterCovered(s) # {}

Ink(s) == {k \in 1..Len(s) : ~IsSpace(s[k])}

NonBlank(s) == Ink(s) # {}

\* s without its leading and trailing whitespace
Stripped(s) ==
    IF Ink(s) = {} THEN <<>>
    ELSE SubSeq(s, CHOOSE a \in Ink(s) : \A b \in Ink(s) : a <= b,
                   CHOOSE a \in Ink(s) : \A b \in Ink(s) : a >= b)

Colons(s) == {k \in 1..Len(s) : s[k] = ":"}

FirstColon(s) == CHOOSE a \in Colons(s) : \A b \in Colons(s) : a <= b

BeforeFirstColon(s) ==
    IF Colons(s) = {} THEN s ELSE SubSeq(s, 1, FirstColon(s) - 1)

AfterFirstColon(s) ==
    IF Colons(s) = {} THEN <<>> ELSE SubSeq(s, FirstColon(s) + 1, Len(s))

\* the lines of s that are not blank, top to bottom
NonBlankLines(s) ==
    SelectSeq(MaximalRuns(s, {k \in 1..Len(s) : s[k] = NL}), NonBlank)

Split == pc \in {"split", "done", "error"}

Rendered == pc = "done"

-----------------------------------------------------------------------------
(* C1 *)

\* C1 as amended: the sections are the non-empty fragments between the
\* occurrences of digits-period-whitespace, in document order; each rendered
\* title is the fragment up to its first colon, TRIMMED, and each body is
\* everything after that first colon (later colons kept), trimmed; the
\* example of the specification yields the two titles it names.
C1_SplitTrimmedTitle ==
    /\ Split =>
        /\ sections = Fragments(analysis)
        /\ \A i \in 1..Len(sections) :
            /\ sections[i] # <<>>
            /\ SectionBody(sections[i]) = Stripped(AfterFirstColon(sections[i]))
    /\ Rendered =>
        /\ Len(outline) = Len(sections)
        /\ \A i \in 1..Len(outline) :
            outline[i].title = Stripped(BeforeFirstColon(sections[i]))
        /\ analysis = SplitExample =>
            /\ Len(outline) = 2
            /\ outline[1].title = KeyHealthChallenges
            /\ outline[2].title = Recommendations

\* C1 as written: the title is the fragment's text up to its first colon
C1_SplitVerbatimTitle ==
    /\ Split =>
        /\ sections = Fragments(analysis)
        /\ \A i \in 1..Len(sections) :
            /\ sections[i] # <<>>
            /\ SectionBody(sections[i]) = Stripped(AfterFirstColon(sections[i]))
    /\ Rendered =>
        /\ Len(outline) = Len(sections)
        /\ \A i \in 1..Len(outline) :
            outline[i].title = BeforeFirstColon(sections[i])

\* two sections rendered, one with whitespace around its title and a body
\* keeping a later colon
C1_Witness ==
    /\ Rendered
    /\ Len(outline) = 2
    /\ \E i \in 1..2 :
        /\ outline[i].title # BeforeFirstColon(sections[i])
        /\ Colons(SectionBody(sections[i])) # {}

-----------------------------------------------------------------------------
(* C2 *)

\* C2 as amended: a narrative without any occurrence of the delimiter
\* yields no section when it is empty, and otherwise exactly one section,
\* the whole input taken as one fragment: its title is the input up to the
\* first colon, trimmed (the whole input when it has no colon), and its body
\* what follows that colon, trimmed (empty when it has no colon).
C2_UndelimitedIsOneFragment ==
    (Split /\ ~HasDelimiter(analysis)) =>
        IF analysis = <<>>
        THEN sections = <<>> /\ (Rendered => outline = <<>>)
        ELSE /\ sections = <<analysis>>
             /\ SectionBody(sections[1]) = Stripped(AfterFirstColon(analysis))
             /\ Rendered =>
                 /\ Len(outline) = 1
                 /\ outline[1].title = Stripped(BeforeFirstColon(analysis))

\* C2 as written: exactly one section, with an empty title and the whole
\* input as its body
C2_UndelimitedIsUntitledBody ==
    (Rendered /\ ~HasDelimiter(analysis)) =>
        /\ Len(outline) = 1
        /\ outline[1].title = <<>>
        /\ SectionBody(sections[1]) = analysis

\* an undelimited narrative with a colon was rendered as one titled section
C2_Witness ==
    /\ Rendered
    /\ ~HasDelimiter(analysis)
    /\ Colons(analysis) # {}
    /\ Len(outline) = 1
    /\ outline[1].title # <<>>
    /\ outline[1].items # <<>>

-----------------------------------------------------------------------------
(* C3 *)

\* /^\d+\.\s/ stated on positions
StartsWithOrdinal(l) ==
    \E d \in 1..Len(l) :
        /\ \A m \in 1..d : IsDigit(l[m])
        /\ d + 2 <= Len(l)
        /\ l[d + 1] = "."
        /\ IsSpace(l[d + 2])

Periods(l) == {k \in 1..Len(l) : l[k] = "."}

FirstPeriod(l) == CHOOSE a \in Periods(l) : \A b \in Periods(l) : a <= b

\* an ordinal with its period at the start of a line: digits and a period,
\* followed by whitespace or by the end of the line
LeadingOrdinal(l) ==
    \E d \in 1..Len(l) :
        /\ \A m \in 1..d : IsDigit(l[m])
        /\ d + 1 <= Len(l)
        /\ l[d + 1] = "."
        /\ d + 1 = Len(l) \/ IsSpace(l[d + 2])

\* the positions of the ordinal and its period at the start of a line
OrdinalMark(l) == IF LeadingOrdinal(l) THEN 1..FirstPeriod(l) ELSE {}

\* the positions of a '-' that leads the line or the text after a colon
DashMarks(l) ==
    {k \in 1..Len(l) :
        /\ l[k] = "-"
        /\ LET before == {j \in 1..(k - 1) : ~IsSpace(l[j])}
           IN  \A j \in before : (\A i \in before : i <= j) => l[j] = ":"}

\* a character that is neither whitespace nor a colon
IsInk(c) == ~IsSpace(c) /\ c # ":"

Squeeze(s) == SelectSeq(s, IsInk)

\* what may be left of a line: its characters other than whitespace and
\* colons, with or without its leading ordinal and its leading dashes
LineRemainders(l) ==
    {Squeeze(Flatten(MaximalRuns(Stripped(l), D \cup O))) :
        D \in SUBSET DashMarks(Stripped(l)),
        O \in {{}, OrdinalMark(Stripped(l))}}

RECURSIVE Remainders(_)
\* what may be left of a sequence of lines, line after line
Remainders(ls) ==
    IF ls = <<>> THEN {<<>>}
    ELSE {a \o b : a \in LineRemainders(ls[1]), b \in Remainders(Tail(ls))}

\* the text of an item as displayed
ItemText(it) == it.number \o it.text

\* everything the outline displays, in rendering order
RenderedText ==
    Flatten([i \in 1..Len(outline) |->
        outline[i].title
            \o Flatten([k \in 1..Len(outline[i].items) |->
                            ItemText(outline[i].items[k])])])

\* C3: no silent loss.  Of every non-blank line of the narrative nothing but
\* whitespace and a leading marker is removed, also when
\* digits-period-whitespace occurs in the middle of the line.  Stated with
\* every allowance for the code: a section title counts as displayed, colons
\* are left aside, and a '-' may go both at the start of the line and after
\* a colon.  C3 as written implies this, so a narrative that breaks it
\* breaks C3.
C3_NoSilentLoss ==
    Rendered => Squeeze(RenderedText) \in Remainders(NonBlankLines(analysis))

-----------------------------------------------------------------------------
(* C4 *)

\* C4: the render of every string completes with an outline and a valid icon
\* for each section, and never reaches the error state.
C4_Totality ==
    /\ pc # "error"
    /\ Rendered => \A i \in 1..Len(outline) : outline[i].icon \in LucideIcons

-----------------------------------------------------------------------------
(* C5 *)

KnownIcon(title) ==
    CASE title = KeyHealthChallenges -> "Brain"
      [] title = HealthcareAccessAnalysis -> "Users"
      [] title = Recommendations -> "Target"
      [] title = PriorityAreas -> "Flag"
      [] OTHER -> "Brain"

\* C5: the icon of every section is the one of its title when the title is
\* one of the four known titles, and Brain for every other title.
C5_ExactMatchOrDefault ==
    Split =>
        \A i \in 1..Len(sections) :
            MapSections(sections)[i].icon
                = KnownIcon(Stripped(BeforeFirstColon(sections[i])))

-----------------------------------------------------------------------------
(* C6 *)

\* C6: every kept body line whose first non-whitespace character is '-' is
\* rendered as a bullet whose text is the line without that '-', trimmed.
C6_IndentedBullet ==
    Rendered =>
        \A i \in 1..Len(outline) :
            LET body == NonBlankLines(Stripped(AfterFirstColon(sections[i])))
            IN  /\ Len(outline[i].items) = Len(body)
                /\ \A k \in 1..Len(body) :
                    Stripped(body[k])[1] = "-" =>
                        /\ outline[i].items[k].kind = "bullet"
                        /\ outline[i].items[k].text
                            = Stripped(Tail(Stripped(body[k])))

-----------------------------------------------------------------------------
(* C7 *)

Classified == pc = "classified"

\* C7: a line that starts with digits, a period and a whitespace character
\* is classified as a numbered item whose ordinal is the digits before the
\* first period and whose text is everything after that first period,
\* trimmed, later periods included; "2. Expand screening" gives "2" and
\* "Expand screening".
C7_NumberedItem ==
    (Classified /\ StartsWithOrdinal(line)) =>
        /\ item.kind = "numbered"
        /\ item.number = SubSeq(line, 1, FirstPeriod(line) - 1)
        /\ \A m \in 1..Len(item.number) : IsDigit(item.number[m])
        /\ item.text = Stripped(SubSeq(line, FirstPeriod(line) + 1, Len(line)))
        /\ line = NumberedLine =>
            item.number = <<"2">> /\ item.text = ExpandScreening

\* a numbered line whose text holds a later period was classified
C7_Witness ==
    /\ Classified
    /\ StartsWithOrdinal(line)
    /\ item.kind = "numbered"
    /\ Periods(item.text) # {}

-----------------------------------------------------------------------------
(* C8 *)

\* C8: the rendered sections are the fragments of the narrative in document
\* order, and the items of each section are its non-blank body lines, one
\* item per line, in the order of the lines.
C8_OrderAndCount ==
    Rendered =>
        /\ Len(outline) = Len(Fragments(analysis))
        /\ \A i \in 1..Len(outline) :
            LET fragment == Fragments(analysis)[i]
                body == NonBlankLines(Stripped(AfterFirstColon(fragment)))
            IN  /\ outline[i].title = Stripped(BeforeFirstColon(fragment))
                /\ Len(outline[i].items) = Len(body)
                /\ \A k \in 1..Len(body) :
                    outline[i].items[k].text
                        \in {Stripped(body[k]), Stripped(Tail(body[k]))}

\* several sections were rendered, one of them with several distinct items
C8_Witness ==
    /\ Rendered
    /\ Len(outline) >= 2
    /\ outline[1].title # outline[2].title
    /\ \E i \in 1..Len(outline) :
        /\ Len(outline[i].items) >= 2
        /\ outline[i].items[1].text # outline[i].items[2].text

-----------------------------------------------------------------------------
(* C9 *)

\* C9: a successful response whose narrative field or its parent object is
\* absent or is not a string renders nothing for the narrative and never
\* crashes the component.
C9_MalformedNarrativeRendersNothing ==
    (data # NoData /\ data.shape # "string") => ~crashed

-----------------------------------------------------------------------------
(* C10 *)

\* C10: once every request has settled, the content on display is the
\* response to the request for the current selection.
C10_NoStaleData ==
    (inflight = <<>> /\ View = "content") => data.for = selected

-----------------------------------------------------------------------------
(* C11 *)

\* a request of the mounted component settles in this step
Settles == selected' = selected /\ Len(inflight') = Len(inflight) - 1

\* the component is constructed anew, or is gone, after this step
Reset == data' = NoData /\ loading' /\ error' = Null

\* the user sees the error message
ErrorVisible == error # Null /\ ~loading /\ ~crashed

\* C11 as amended: a fetch that fails leaves the error message set and
\* loading false, with the data untouched; the message then stays set until
\* a fetch succeeds or the component is unmounted, and is on display whenever
\* loading is false (a newly started fetch sets loading and hides it); the
\* data, and so any narrative that is rendered, only ever changes to the
\* response of a request that settled successfully.
C11_FailureSurfaced ==
    [][/\ Settles =>
            /\ ~loading'
            /\ \/ error' = Null /\ data' # NoData
               \/ error' # Null /\ data' = data /\ ErrorVisible'
       /\ (error # Null /\ error' = Null) =>
            \/ Settles /\ data' # NoData
            \/ Reset
       /\ data' # data =>
            \/ Reset
            \/ /\ Settles
               /\ error' = Null
               /\ \E i \in 1..Len(inflight) : data'.for = inflight[i]]_vars

\* C11 as written: once a fetch has failed the error stays visible (message
\* set, loading false) until a fetch succeeds.
C11_ErrorVisibleUntilSuccess ==
    [][ErrorVisible => (ErrorVisible' \/ (Settles /\ error' = Null))]_vars

\* the message of a failed fetch is still set while a newer fetch is loading
C11_Witness ==
    /\ error # Null
    /\ loading
    /\ inflight # <<>>
    /\ data # NoData

-----------------------------------------------------------------------------
(* C12 *)

\* the indices of s at which a line starts with digits-period-whitespace
NumberedLineStarts(s) ==
    {k \in 1..Len(s) :
        /\ k = 1 \/ s[k - 1] = NL
        /\ StartsWithOrdinal(SubSeq(s, k, Len(s)))}

\* the index just after the digits-period-whitespace that starts at k
AfterOrdinal(s, k) ==
    (CHOOSE j \in k..Len(s) : s[j] = "." /\ \A m \in k..(j - 1) : s[m] # ".")
        + 2

-----------------------------------------------------------------------------
(* C13 *)

\* C13: while a fetch started for the current props has not settled the
\* loading flag is true, and the component shows the loading indicator
\* rather than data or an error.
C13_LoadingWhileInFlight ==
    (/\ Mounted(page, selected)
     /\ ~crashed
     /\ \E i \in 1..Len(inflight) : inflight[i] = selected)
        => (loading /\ View = "loading")

-----------------------------------------------------------------------------
(* C14 *)

Members(sel) == {sel[k] : k \in 1..Len(sel)}

NoDuplicate(sel) == \A j, k \in 1..Len(sel) : sel[j] = sel[k] => j = k

\* sel with its k-th region taken out, the others in their order
DropAt(sel, k) == SubSeq(sel, 1, k - 1) \o SubSeq(sel, k + 1, Len(sel))

\* the selection after the same region is clicked twice in multiple mode
ClickedTwice(sel, msa) ==
    handleSelectionChange(handleSelectionChange(sel, msa, TRUE), msa, TRUE)

\* C14 as amended: in multiple mode the selection never holds a region
\* twice, a click on an unselected region appends it at the end and a click
\* on a selected region takes it out and keeps the order of the others;
\* clicking the same region twice restores the selection when the region
\* was unselected or was the last one selected, and otherwise moves the
\* region to the end; in single mode every click makes the selection the
\* one clicked region.
C14_Toggle ==
    /\ [](page = "compare" =>
            /\ NoDuplicate(selected)
            /\ \A msa \in Regions :
                /\ Members(ClickedTwice(selected, msa)) = Members(selected)
                /\ NoDuplicate(ClickedTwice(selected, msa))
                /\ IF msa \notin Members(selected)
                   THEN ClickedTwice(selected, msa) = selected
                   ELSE \E k \in 1..Len(selected) :
                        /\ selected[k] = msa
                        /\ ClickedTwice(selected, msa)
                            = Append(DropAt(selected, k), msa))
    /\ [][selected' # selected =>
            IF page = "compare"
            THEN \E msa \in Regions :
                    \/ /\ msa \notin Members(selected)
                       /\ selected' = Append(selected, msa)
                    \/ \E k \in 1..Len(selected) :
                        /\ selected[k] = msa
                        /\ selected' = DropAt(selected, k)
            ELSE Len(selected') = 1 /\ selected'[1] \in Regions]_vars

\* C14 as written: clicking the same region twice restores the previous
\* selection.
C14_ClickTwiceRestores ==
    page = "compare" =>
        \A msa \in Regions : ClickedTwice(selected, msa) = selected

\* three regions are selected in an order in which a second click on the
\* first of them does not give the selection back
C14_Witness ==
    /\ page = "compare"
    /\ Len(selected) = 3
    /\ NoDuplicate(selected)
    /\ ClickedTwice(selected, selected[1])
        = <<selected[2], selected[3], selected[1]>>

-----------------------------------------------------------------------------
(* C15 *)

\* C15: on the compare page the comparison is on the page, and requests for
\* it exist, exactly when two or more regions are selected; every click that
\* leaves two or more regions selected issues a request whose base region is
\* the earliest-selected region still selected (the old base while it stays
\* selected, the next region in order once it is removed) and whose
\* comparison regions are all the other selected regions in selection
\* order; no request has its base among its comparison regions.
C15_CompareProps ==
    /\ [](page = "compare" =>
            /\ (View # "unmounted") <=> (Len(selected) >= 2)
            /\ Len(selected) < 2 => inflight = <<>>
            /\ \A i \in 1..Len(inflight) :
                /\ Len(inflight[i]) >= 2
                /\ inflight[i][1] \notin Members(Tail(inflight[i])))
    /\ [][(page = "compare" /\ selected' # selected /\ Len(selected') >= 2) =>
            /\ inflight' # <<>>
            /\ LET r == inflight'[Len(inflight')] IN
                /\ r[1] = selected'[1]
                /\ Tail(r) = Tail(selected')
                /\ r[1] \notin Members(Tail(r))
                /\ selected # <<>> =>
                    r[1] = IF selected[1] \in Members(selected')
                           THEN selected[1] ELSE selected[2]]_vars

\* two requests of one mounted comparison have different base regions: the
\* earlier base was deselected, and the later request is for the selection
C15_Witness ==
    /\ page = "compare"
    /\ Len(inflight) = 2
    /\ inflight[1][1] # inflight[2][1]
    /\ inflight[1][1] \notin Members(selected)
    /\ inflight[2] = selected
    /\ View = "loading"

====
